---- MODULE Spec2Model ----
(***************************************************************************)
(* Model of src/sc.py: the nur.cn article pipeline.  A run seeds the       *)
(* visited-URL set from the JSON files of the output directory, consumes   *)
(* the crawler's result stream (filter, dedup, extraction, per-article txt *)
(* file, dataset append) and finally writes the timestamped dataset file.  *)
(* Text is a sequence of one-character strings, so lengths, stripping,     *)
(* substring and suffix tests are computed as the code computes them.      *)
(* URLs are written without the "https://www.nur.cn" prefix.               *)
(***************************************************************************)
EXTENDS Integers, Sequences, FiniteSets, TLC

VARIABLES
    phase,          \* position in deep_crawl_nur: Seeding, Streaming, Finalizing, Done, Failed
    run,            \* number of the current invocation of deep_crawl_nur
    clock,          \* wall clock read by datetime.now(), in whole seconds
    disk,           \* output_dir: file name -> file content
    visited_urls,   \* extractor.visited_urls
    dataset,        \* extractor.dataset
    result_count,   \* counters of deep_crawl_nur
    success_count,
    skip_count,
    seeded,         \* visited_urls as load_existing_urls left it (history)
    last,           \* the result handled last in this run, <<>> before the first (history)
    calls,          \* the extractor methods called for the last result, in order (history)
    extracted,      \* urls passed to extract_content in this run (history)
    written,        \* urls whose txt file was written in this run (history)
    reported,       \* the summary printed after the loop, <<>> before it
    error,          \* the exception that ended the run, "none" otherwise
    output_file,    \* output_file of line 150: <<name>>, or <<>> for None
    seed_disk,      \* the directory as load_existing_urls found it (history)
    prior,          \* how the previous run ended (history)
    replay,         \* the stream a re-run experiment fixes for every run
    arrived         \* results the stream handed over in this run, and how many of
                    \* them passed the filter with a url the ledger held (history)

vars == <<phase, run, clock, disk, visited_urls, dataset, result_count,
          success_count, skip_count, seeded, last, calls, extracted,
          written, reported, error, output_file, seed_disk, prior, replay, arrived>>

----------------------------------------------------------------------------
(* Bounds *)

\* the max_pages handed to the crawler: a run's stream has at most this many results
MaxPages == 2

\* number of invocations of deep_crawl_nur against the same output directory
MaxRuns == 2

\* the clock runs from 0 to MaxClock seconds
MaxClock == 1

----------------------------------------------------------------------------
(* Text *)

IsSpace(c) == c \in {" ", "\n"}

RECURSIVE LStrip(_)
LStrip(s) ==
    IF s = <<>> THEN s
    ELSE IF IsSpace(Head(s)) THEN LStrip(Tail(s)) ELSE s

RECURSIVE RStrip(_)
RStrip(s) ==
    IF s = <<>> THEN s
    ELSE IF IsSpace(s[Len(s)]) THEN RStrip(SubSeq(s, 1, Len(s) - 1)) ELSE s

\* str.strip()
Strip(s) == RStrip(LStrip(s))

\* sub in s
HasSubstring(s, sub) ==
    \E i \in 1..(Len(s) - Len(sub) + 1) : SubSeq(s, i, i + Len(sub) - 1) = sub

\* s.endswith(suffix)
EndsWith(s, suffix) ==
    /\ Len(s) >= Len(suffix)
    /\ SubSeq(s, Len(s) - Len(suffix) + 1, Len(s)) = suffix

\* sep.join(parts)
RECURSIVE Join(_, _)
Join(parts, sep) ==
    IF parts = <<>> THEN <<>>
    ELSE IF Len(parts) = 1 THEN parts[1]
    ELSE parts[1] \o sep \o Join(Tail(parts), sep)

\* the stripped, non-empty strings of a list of text nodes
RECURSIVE StrippedStrings(_)
StrippedStrings(texts) ==
    IF texts = <<>> THEN <<>>
    ELSE LET t == Strip(Head(texts))
         IN  IF t = <<>> THEN StrippedStrings(Tail(texts))
             ELSE <<t>> \o StrippedStrings(Tail(texts))

\* element.get_text(separator=sep, strip=True)
get_text(elem, sep) == Join(StrippedStrings(elem.texts), sep)

\* decimal digits of a natural number, as strftime prints a field
RECURSIVE Digits(_)
Digits(n) ==
    LET d == <<"0", "1", "2", "3", "4", "5", "6", "7", "8", "9">>[(n % 10) + 1]
    IN  IF n < 10 THEN <<d>> ELSE Digits(n \div 10) \o <<d>>

----------------------------------------------------------------------------
(* Markup: a page is a sequence of elements, each with a tag, the tokens   *)
(* of its class attribute and its text nodes.                              *)

\* soup.find(tag, class_=...): the first matching element, <<>> when there is none
RECURSIVE Find(_, _, _)
Find(html, tag, cls) ==
    IF html = <<>> THEN <<>>
    ELSE LET e == Head(html)
             \* a one-token class_ matches any element carrying the token;
             \* a class_ with a space matches the exact attribute string
             hit == /\ e.tag = tag
                    /\ IF Len(cls) = 1 THEN \E i \in 1..Len(e.class) : e.class[i] = cls[1]
                       ELSE e.class = cls
         IN  IF hit THEN <<e>> ELSE Find(Tail(html), tag, cls)

\* lines 35-36
title_of(html_content) ==
    LET title_elem == Find(html_content, "h2", <<"tt">>)
    IN  IF title_elem # <<>> THEN get_text(title_elem[1], <<>>) ELSE <<>>

\* lines 38-41
content_of(html_content) ==
    LET content_elem == Find(html_content, "div", <<"view_p", "mazmun">>)
    IN  IF content_elem # <<>> THEN get_text(content_elem[1], <<"\n">>) ELSE <<>>

\* extract_content without the emptiness test of line 43
extract_content_keep_empty(html_content, url, now) ==
    IF html_content = <<>> THEN <<>>
    ELSE LET title == title_of(html_content)
             content == content_of(html_content)
         IN  <<[url |-> url, title |-> title, content |-> content,
                crawl_time |-> now, content_length |-> Len(content)]>>

\* extract_content that measures the title where line 51 measures the content
extract_content_title_length(html_content, url, now) ==
    IF html_content = <<>> THEN <<>>
    ELSE LET title == title_of(html_content)
             content == content_of(html_content)
         IN  IF title = <<>> /\ content = <<>> THEN <<>>
             ELSE <<[url |-> url, title |-> title, content |-> content,
                     crawl_time |-> now, content_length |-> Len(title)]>>

\* NurContentExtractor.extract_content: <<record>>, or <<>> for None
extract_content(html_content, url, now) ==
    IF html_content = <<>> THEN <<>>
    ELSE LET title == title_of(html_content)
             content == content_of(html_content)
         IN  IF title = <<>> /\ content = <<>> THEN <<>>
             ELSE <<[url |-> url, title |-> title, content |-> content,
                     crawl_time |-> now, content_length |-> Len(content)]>>

\* the characters re.sub replaces on line 59
IllegalChars == {"<", ">", ":", "\"", "/", "\\", "|", "?", "*"}

\* the [:50] of line 59
TitleLimit == 50

\* re.sub(r'[<>:"/\\|?*]', '_', title)[:50]
safe_title(title) ==
    LET sub == [i \in 1..Len(title) |-> IF title[i] \in IllegalChars THEN "_" ELSE title[i]]
    IN  SubSeq(sub, 1, IF Len(sub) < TitleLimit THEN Len(sub) ELSE TitleLimit)

\* txt_filename of save_single_txt
txt_filename(data) == safe_title(data.title) \o <<".", "t", "x", "t">>

\* what save_single_txt writes into the file
txt_text(data) == data.title \o <<"\n", "\n">> \o data.content

\* a file of the directory: its text, and the value json.load returns for it
\* (<<>> when it does not parse)
TextFile(text) == [text |-> text, json |-> <<>>]
JsonFile(value) == [text |-> <<>>, json |-> <<value>>]

\* datetime.now().strftime("%Y%m%d_%H%M%S"): the clock counts whole seconds
strftime(now) == Digits(now)

\* json_file of save_final_dataset
json_filename(now) ==
    <<"n", "u", "r", "_", "d", "a", "t", "a", "s", "e", "t", "_">>
        \o strftime(now) \o <<".", "j", "s", "o", "n">>

\* the document json.dump writes
dataset_document(data, now) ==
    [type |-> "dict",
     value |-> [source |-> "https://www.nur.cn/", crawl_date |-> now,
                total_articles |-> Len(data), articles |-> data]]

----------------------------------------------------------------------------
(* The output directory *)

\* the directory with one file created or overwritten: open(path, 'w')
Put(dir, name, file) ==
    [n \in (DOMAIN dir) \cup {name} |-> IF n = name THEN file ELSE dir[n]]

DotJson == <<".", "j", "s", "o", "n">>

\* the loop of lines 77-78: an article without 'url' raises, which ends the file
RECURSIVE add_article_urls(_, _)
add_article_urls(articles, visited) ==
    IF articles = <<>> THEN visited
    ELSE IF "url" \notin DOMAIN Head(articles) THEN visited
    ELSE add_article_urls(Tail(articles), visited \cup {Head(articles).url})

\* the body of lines 72-80 raises for file f (the except of line 79 catches it)
raises(dir, f) ==
    /\ EndsWith(f, DotJson)
    /\ \/ dir[f].json = <<>>
       \/ dir[f].json[1].type # "dict"
       \/ /\ "articles" \in DOMAIN dir[f].json[1].value
          /\ \E i \in 1..Len(dir[f].json[1].value.articles) :
                "url" \notin DOMAIN dir[f].json[1].value.articles[i]

\* lines 72-80 for one file of the listing
load_file(dir, f, visited) ==
    IF ~EndsWith(f, DotJson) THEN visited
    ELSE IF dir[f].json = <<>> THEN visited
    ELSE LET data == dir[f].json[1]
         IN  IF data.type # "dict" THEN visited
             ELSE IF "articles" \notin DOMAIN data.value THEN visited
             ELSE add_article_urls(data.value.articles, visited)

\* load_existing_urls with the try around the whole loop: the first file that
\* raises ends the scan
RECURSIVE load_existing_urls_try_outside(_, _, _)
load_existing_urls_try_outside(dir, listing, visited) ==
    IF listing = <<>> THEN visited
    ELSE IF raises(dir, Head(listing)) THEN load_file(dir, Head(listing), visited)
    ELSE load_existing_urls_try_outside(dir, Tail(listing),
                                        load_file(dir, Head(listing), visited))

\* load_existing_urls that reads no file (a suffix test that never matches)
load_existing_urls_reads_nothing(dir, listing, visited) == visited

\* NurContentExtractor.load_existing_urls, for the order os.listdir returned
RECURSIVE load_existing_urls(_, _, _)
load_existing_urls(dir, listing, visited) ==
    IF listing = <<>> THEN visited
    ELSE load_existing_urls(dir, Tail(listing), load_file(dir, Head(listing), visited))

\* the orders os.listdir may return the names in
RECURSIVE Orders(_)
Orders(names) ==
    IF names = {} THEN {<<>>}
    ELSE UNION {{<<f>> \o l : l \in Orders(names \ {f})} : f \in names}

Listings(dir) == Orders(DOMAIN dir)

\* save_final_dataset that keeps a one-article dataset back
save_final_dataset_off_by_one(data, dir, now) ==
    IF Len(data) <= 1 THEN [ret |-> <<>>, dir |-> dir]
    ELSE [ret |-> <<json_filename(now)>>,
          dir |-> Put(dir, json_filename(now), JsonFile(dataset_document(data, now)))]

\* save_final_dataset without the test for an empty dataset
save_final_dataset_writes_empty(data, dir, now) ==
    [ret |-> <<json_filename(now)>>,
     dir |-> Put(dir, json_filename(now), JsonFile(dataset_document(data, now)))]

\* save_final_dataset: the value returned (<<>> for None) and the directory it leaves
save_final_dataset(data, dir, now) ==
    IF data = <<>> THEN [ret |-> <<>>, dir |-> dir]
    ELSE [ret |-> <<json_filename(now)>>,
          dir |-> Put(dir, json_filename(now), JsonFile(dataset_document(data, now)))]

----------------------------------------------------------------------------
(* The pages the crawler may deliver, and the directories a run may find *)

\* '/news/' and '.shtml' of line 125
NEWS_SEGMENT == <<"/", "n", "e", "w", "s", "/">>
SHTML_SUFFIX == <<".", "s", "h", "t", "m", "l">>

NEWS1 == <<"/", "n", "e", "w", "s", "/", "1", ".", "s", "h", "t", "m", "l">>
NEWS2 == <<"/", "n", "e", "w", "s", "/", "2", ".", "s", "h", "t", "m", "l">>
NEWS3 == <<"/", "n", "e", "w", "s", "/", "3", ".", "s", "h", "t", "m", "l">>
NEWS_HTML == <<"/", "n", "e", "w", "s", "/", "5", ".", "h", "t", "m", "l">>
SPORT == <<"/", "s", "p", "o", "r", "t", "/", "1", ".", "s", "h", "t", "m", "l">>
ABOUT == <<"/", "a", "b", "o", "u", "t", ".", "h", "t", "m", "l">>

Element(tag, class, texts) == [tag |-> tag, class |-> class, texts |-> texts]

\* title " a" and body "b", " ", "c ": title "a", content "b\nc"
DocFull ==
    <<Element("h2", <<"tt">>, << <<" ", "a">> >>),
      Element("div", <<"view_p", "mazmun">>, << <<"b">>, <<" ">>, <<"c", " ">> >>)>>

\* a title element holding only whitespace, and a body
DocBodyOnly ==
    <<Element("h2", <<"tt">>, << <<" ">> >>),
      Element("div", <<"view_p", "mazmun">>, << <<"b">> >>)>>

\* the same page before its body was filled in: a title with a character
\* illegal in file names; the div has the classes in the other order, so it is
\* not the body element
DocTitleOnly ==
    <<Element("h2", <<"big", "tt">>, << <<"a", "/">> >>),
      Element("div", <<"mazmun", "view_p">>, << <<"z">> >>)>>

\* neither element
DocNeither ==
    <<Element("h2", <<"other">>, << <<"x">> >>), Element("p", <<>>, << <<"y">> >>)>>

Result(url, success, html) == [url |-> url, success |-> success, html |-> html]

Pages ==
    {Result(NEWS1, TRUE, DocFull),
     Result(NEWS1, FALSE, DocFull),
     Result(NEWS2, TRUE, DocBodyOnly),
     Result(NEWS2, TRUE, <<>>),
     Result(NEWS3, TRUE, DocNeither),
     Result(NEWS1, TRUE, DocTitleOnly),
     Result(NEWS_HTML, TRUE, DocFull),
     Result(SPORT, TRUE, DocFull),
     Result(ABOUT, TRUE, DocFull)}

Urls == {p.url : p \in Pages}

\* the dataset file of an earlier run, written in second 0
OLD1 == json_filename(0)
OLD2 == <<"o", "l", "d", "2", ".", "j", "s", "o", "n">>
OLD3 == <<"o", "l", "d", "3", ".", "j", "s", "o", "n">>

\* a dataset file an earlier run wrote, holding NEWS1
OldDataset ==
    JsonFile(dataset_document(
        <<[url |-> NEWS1, title |-> <<"a">>, content |-> <<"b", "\n", "c">>,
           crawl_time |-> 0, content_length |-> 3]>>, 0))

\* .json files that are no dataset: not JSON at all, a JSON number, an object
\* without 'articles', and an 'articles' list whose second entry has no 'url'
BadFiles ==
    <<TextFile(<<"{">>),
     JsonFile([type |-> "number", value |-> [number |-> 7]]),
     JsonFile([type |-> "dict", value |-> [source |-> "x"]]),
     JsonFile([type |-> "dict",
               value |-> [articles |-> <<[url |-> NEWS2], [title |-> <<"t">>],
                                         [url |-> NEWS3]>>]])>>

Empty == [n \in {} |-> TextFile(<<>>)]

\* the directories a first run may find: empty, or an earlier dataset next to
\* two files that are no dataset
InitialDisks ==
    LET good == Put(Empty, OLD1, OldDataset)
    IN  {Empty,
         Put(Put(good, OLD2, BadFiles[1]), OLD3, BadFiles[4]),
         Put(Put(good, OLD2, BadFiles[2]), OLD3, BadFiles[3])}

----------------------------------------------------------------------------
(* One iteration of the async for loop (lines 121-142), on the extractor's *)
(* state st.  ok says whether open() of line 63 succeeds.                  *)

\* the filter without the suffix test
accepts_any_suffix(result) ==
    /\ result.success
    /\ result.html # <<>>
    /\ HasSubstring(result.url, NEWS_SEGMENT)

\* the filter without the test of result.success
accepts_failed_fetch(result) ==
    /\ result.html # <<>>
    /\ HasSubstring(result.url, NEWS_SEGMENT)
    /\ EndsWith(result.url, SHTML_SUFFIX)

\* lines 124-125
accepts(result) ==
    /\ result.success
    /\ result.html # <<>>
    /\ HasSubstring(result.url, NEWS_SEGMENT)
    /\ EndsWith(result.url, SHTML_SUFFIX)

\* is_duplicate that forgets line 25
is_duplicate_no_add(visited, url) ==
    [ret |-> url \in visited, visited |-> visited]

\* NurContentExtractor.is_duplicate: the value returned and the set it leaves
is_duplicate(visited, url) ==
    [ret |-> url \in visited, visited |-> visited \cup {url}]

\* save_single_txt without the title test of lines 56-57
save_single_txt_any_title(data, st, ok) ==
    LET called == [st EXCEPT !.calls = Append(@, "save_single_txt")]
    IN  IF ~ok THEN [called EXCEPT !.error = "write"]
        ELSE [called EXCEPT !.disk = Put(@, txt_filename(data), TextFile(txt_text(data))),
                            !.written = Append(@, data.url)]

\* NurContentExtractor.save_single_txt
save_single_txt(data, st, ok) ==
    LET called == [st EXCEPT !.calls = Append(@, "save_single_txt")]
    IN  IF data.title = <<>> THEN called
        ELSE IF ~ok THEN [called EXCEPT !.error = "write"]
        ELSE [called EXCEPT !.disk = Put(@, txt_filename(data), TextFile(txt_text(data))),
                            !.written = Append(@, data.url)]

\* lines 130-136 with the success counter outside the if of line 132
extract_and_save_counts_all(result, st, now, ok) ==
    LET data == extract_content(result.html, result.url, now)
        tried == [st EXCEPT !.calls = Append(@, "extract_content"),
                            !.extracted = Append(@, result.url),
                            !.success_count = @ + 1]
    IN  IF data = <<>> THEN tried
        ELSE save_single_txt(data[1],
                             [tried EXCEPT !.dataset = Append(@, data[1]),
                                           !.calls = Append(@, "append")],
                             ok)

\* lines 130-136
extract_and_save(result, st, now, ok) ==
    LET data == extract_content(result.html, result.url, now)
        tried == [st EXCEPT !.calls = Append(@, "extract_content"),
                            !.extracted = Append(@, result.url)]
    IN  IF data = <<>> THEN tried
        ELSE save_single_txt(data[1],
                             [tried EXCEPT !.dataset = Append(@, data[1]),
                                           !.success_count = @ + 1,
                                           !.calls = Append(@, "append")],
                             ok)

\* the loop body without the continue of line 128
handle_no_continue(result, st, now, ok) ==
    LET seen == [st EXCEPT !.result_count = @ + 1, !.calls = <<>>]
    IN  IF ~accepts(result) THEN seen
        ELSE LET d == is_duplicate(st.visited_urls, result.url)
                 marked == [seen EXCEPT !.visited_urls = d.visited,
                                        !.calls = <<IF d.ret THEN "is_duplicate:True"
                                                    ELSE "is_duplicate:False">>]
             IN  IF d.ret
                 THEN extract_and_save(result, [marked EXCEPT !.skip_count = @ + 1], now, ok)
                 ELSE extract_and_save(result, marked, now, ok)

\* the loop body that marks the url of a result the filter rejects
handle_marks_rejected(result, st, now, ok) ==
    LET seen == [st EXCEPT !.result_count = @ + 1, !.calls = <<>>]
    IN  IF ~accepts(result)
        THEN [seen EXCEPT !.visited_urls = is_duplicate(@, result.url).visited]
        ELSE LET d == is_duplicate(st.visited_urls, result.url)
                 marked == [seen EXCEPT !.visited_urls = d.visited,
                                        !.calls = <<IF d.ret THEN "is_duplicate:True"
                                                    ELSE "is_duplicate:False">>]
             IN  IF d.ret
                 THEN [marked EXCEPT !.skip_count = @ + 1]
                 ELSE extract_and_save(result, marked, now, ok)

\* the loop body, lines 122-136
handle(result, st, now, ok) ==
    LET seen == [st EXCEPT !.result_count = @ + 1, !.calls = <<>>]
    IN  IF ~accepts(result) THEN seen
        ELSE LET d == is_duplicate(st.visited_urls, result.url)
                 marked == [seen EXCEPT !.visited_urls = d.visited,
                                        !.calls = <<IF d.ret THEN "is_duplicate:True"
                                                    ELSE "is_duplicate:False">>]
             IN  IF d.ret
                 THEN [marked EXCEPT !.skip_count = @ + 1]
                 ELSE extract_and_save(result, marked, now, ok)

----------------------------------------------------------------------------
(* The run *)

NoReplay == [on |-> FALSE, pages |-> <<>>]

NoPrior == [done |-> FALSE, wrote |-> FALSE, intact |-> TRUE]

\* the state a new process has when deep_crawl_nur reaches line 93
Fresh ==
    /\ phase = "Seeding"
    /\ visited_urls = {}
    /\ dataset = <<>>
    /\ result_count = 0
    /\ success_count = 0
    /\ skip_count = 0
    /\ seeded = {}
    /\ last = <<>>
    /\ calls = <<>>
    /\ extracted = <<>>
    /\ written = <<>>
    /\ reported = <<>>
    /\ error = "none"
    /\ output_file = <<>>
    /\ seed_disk = Empty
    /\ arrived = [results |-> 0, known |-> 0]

Init ==
    /\ Fresh
    /\ run = 1
    /\ clock = 0
    /\ disk \in InitialDisks
    /\ prior = NoPrior
    /\ replay = NoReplay

\* line 93, then lines 117-119
Seed ==
    /\ phase = "Seeding"
    /\ \E listing \in Listings(disk) :
          visited_urls' = load_existing_urls(disk, listing, visited_urls)
    /\ seeded' = visited_urls'
    /\ seed_disk' = disk
    /\ result_count' = 0
    /\ success_count' = 0
    /\ skip_count' = 0
    /\ phase' = "Streaming"
    /\ UNCHANGED <<run, clock, disk, dataset, last, calls, extracted, written,
                   reported, error, output_file, prior, replay, arrived>>

\* the crawler yields one more result: one iteration of lines 121-142.  An
\* exception of save_single_txt leaves the loop and the function.
Deliver(result) ==
    /\ phase = "Streaming"
    /\ result_count < MaxPages
    /\ replay.on => /\ result_count < Len(replay.pages)
                    /\ result = replay.pages[result_count + 1]
    /\ \E ok \in BOOLEAN :
          LET st == [visited_urls |-> visited_urls, dataset |-> dataset,
                     result_count |-> result_count, success_count |-> success_count,
                     skip_count |-> skip_count, disk |-> disk, calls |-> calls,
                     extracted |-> extracted, written |-> written, error |-> error]
              n == handle(result, st, clock, ok)
          IN  /\ visited_urls' = n.visited_urls
              /\ dataset' = n.dataset
              /\ result_count' = n.result_count
              /\ success_count' = n.success_count
              /\ skip_count' = n.skip_count
              /\ disk' = n.disk
              /\ calls' = n.calls
              /\ extracted' = n.extracted
              /\ written' = n.written
              /\ error' = n.error
              /\ phase' = IF n.error = "none" THEN "Streaming" ELSE "Failed"
    /\ last' = <<result>>
    /\ arrived' = [results |-> arrived.results + 1,
                   known |-> arrived.known +
                       (IF /\ result.success
                           /\ result.html # <<>>
                           /\ HasSubstring(result.url, NEWS_SEGMENT)
                           /\ EndsWith(result.url, SHTML_SUFFIX)
                           /\ result.url \in visited_urls
                        THEN 1 ELSE 0)]
    /\ UNCHANGED <<run, clock, seeded, reported, output_file, seed_disk, prior, replay>>

\* the stream ends (all pages crawled, or max_pages reached): lines 144-148
Exhaust ==
    /\ phase = "Streaming"
    /\ replay.on => result_count = Len(replay.pages)
    /\ reported' = <<[pages |-> result_count, success |-> success_count,
                      skipped |-> skip_count]>>
    /\ phase' = "Finalizing"
    /\ UNCHANGED <<run, clock, disk, visited_urls, dataset, result_count,
                   success_count, skip_count, seeded, last, calls, extracted,
                   written, error, output_file, seed_disk, prior, replay, arrived>>

\* the stream raises and the loop swallows it, as if the stream had ended
UpstreamError_swallowed ==
    /\ phase = "Streaming"
    /\ error' = "upstream"
    /\ reported' = <<[pages |-> result_count, success |-> success_count,
                      skipped |-> skip_count]>>
    /\ phase' = "Finalizing"
    /\ UNCHANGED <<run, clock, disk, visited_urls, dataset, result_count,
                   success_count, skip_count, seeded, last, calls, extracted,
                   written, output_file, seed_disk, prior, replay, arrived>>

\* the stream raises: the exception leaves lines 116-142 and the function
UpstreamError ==
    /\ phase = "Streaming"
    /\ error' = "upstream"
    /\ phase' = "Failed"
    /\ UNCHANGED <<run, clock, disk, visited_urls, dataset, result_count,
                   success_count, skip_count, seeded, last, calls, extracted,
                   written, reported, output_file, seed_disk, prior, replay, arrived>>

\* lines 150-153
Finalize ==
    /\ phase = "Finalizing"
    /\ disk' = save_final_dataset(dataset, disk, clock).dir
    /\ output_file' = save_final_dataset(dataset, disk, clock).ret
    /\ phase' = "Done"
    /\ UNCHANGED <<run, clock, visited_urls, dataset, result_count, success_count,
                   skip_count, seeded, last, calls, extracted, written,
                   reported, error, seed_disk, prior, replay, arrived>>

\* the program is started again on the same directory (lines 185, 91-92)
StartRun ==
    /\ phase \in {"Done", "Failed"}
    /\ run < MaxRuns
    /\ run' = run + 1
    /\ phase' = "Seeding"
    /\ visited_urls' = {}
    /\ dataset' = <<>>
    /\ result_count' = 0
    /\ success_count' = 0
    /\ skip_count' = 0
    /\ seeded' = {}
    /\ last' = <<>>
    /\ calls' = <<>>
    /\ extracted' = <<>>
    /\ written' = <<>>
    /\ reported' = <<>>
    /\ error' = "none"
    /\ output_file' = <<>>
    /\ seed_disk' = Empty
    /\ arrived' = [results |-> 0, known |-> 0]
    /\ prior' = [done |-> phase = "Done",
                 wrote |-> output_file # <<>>,
                 intact |-> \A n \in DOMAIN seed_disk : disk[n] = seed_disk[n]]
    /\ UNCHANGED <<clock, disk, replay>>

\* time passes
Tick ==
    /\ clock < MaxClock
    /\ clock' = clock + 1
    /\ UNCHANGED <<phase, run, disk, visited_urls, dataset, result_count,
                   success_count, skip_count, seeded, last, calls, extracted,
                   written, reported, error, output_file, seed_disk, prior, replay, arrived>>

Next ==
    \/ Seed
    \/ \E result \in Pages : Deliver(result)
    \/ Exhaust
    \/ UpstreamError
    \/ Finalize
    \/ StartRun
    \/ Tick

Spec == Init /\ [][Next]_vars

\* every stream of at most MaxPages results
Streams == UNION {[1..n -> Pages] : n \in 0..MaxPages}

\* the re-run experiment: the crawler delivers the same results, in the same
\* order, to every run
InitRerun ==
    /\ Fresh
    /\ run = 1
    /\ clock = 0
    /\ disk \in InitialDisks
    /\ prior = NoPrior
    /\ replay \in {[on |-> TRUE, pages |-> s] : s \in Streams}

SpecRerun == InitRerun /\ [][Next]_vars

----------------------------------------------------------------------------
(* Properties *)

\* the four conditions of the URL filter, spelled out
InScope(result) ==
    /\ result.success
    /\ result.html # <<>>
    /\ HasSubstring(result.url, <<"/", "n", "e", "w", "s", "/">>)
    /\ EndsWith(result.url, <<".", "s", "h", "t", "m", "l">>)

RecordsFor(u) == {i \in 1..Len(dataset) : dataset[i].url = u}

Occurrences(seq, u) == Cardinality({i \in 1..Len(seq) : seq[i] = u})

Called(op) == \E i \in 1..Len(calls) : calls[i] = op

\* the last result repeats a url this run was already handed: the ledger held
\* the url, and not from the history files
RepeatedNow(u) ==
    /\ last # <<>>
    /\ last[1].url = u
    /\ calls = <<"is_duplicate:True">>
    /\ u \notin seeded

\* C1 as stated: a url the stream delivers more than once has exactly one
\* record in the RunBuffer and exactly one artifact write.
C1_ExactlyOnePerRepeatedUrl ==
    \A u \in Urls :
        RepeatedNow(u) =>
            /\ Cardinality(RecordsFor(u)) = 1
            /\ Occurrences(written, u) = 1

\* C1 amended: however often the stream delivers a url, at most one record for
\* it is extracted, at most one record with that url is in the RunBuffer and at
\* most one artifact write happens for it.
C1_AtMostOnePerUrl ==
    \A u \in Urls :
        /\ Cardinality(RecordsFor(u)) <= 1
        /\ Occurrences(extracted, u) <= 1
        /\ Occurrences(written, u) <= 1
        /\ Occurrences(written, u) <= Cardinality(RecordsFor(u))

C1_Witness ==
    \E u \in Urls :
        /\ RepeatedNow(u)
        /\ Cardinality(RecordsFor(u)) = 1
        /\ Occurrences(written, u) = 1

\* this run follows a run that reached Done on the same stream, and the files
\* that run seeded from were not touched
ReRun ==
    /\ replay.on
    /\ run >= 2
    /\ prior.done
    /\ prior.intact
    /\ phase # "Seeding"

C3_FilterCorrect ==
    calls # <<>> => (last # <<>> /\ InScope(last[1]))

C3_Witness ==
    /\ Called("extract_content")
    /\ last # <<>>
    /\ InScope(last[1])

\* C4: a result that passes the filter gets exactly one is_duplicate call, as
\* the first call; extract_content is called only after it returned False; a url
\* seeded from the history files is rejected on every delivery and is never
\* extracted, written or put in the RunBuffer.
C4_CheckAndMarkFirst ==
    /\ (last # <<>> /\ InScope(last[1])) =>
          {i \in 1..Len(calls) : calls[i] \in {"is_duplicate:True", "is_duplicate:False"}} = {1}
    /\ Called("extract_content") => calls[1] = "is_duplicate:False"
    /\ \A u \in seeded :
          /\ RecordsFor(u) = {}
          /\ Occurrences(extracted, u) = 0
          /\ Occurrences(written, u) = 0
          /\ (last # <<>> /\ last[1].url = u /\ InScope(last[1])) =>
                calls = <<"is_duplicate:True">>

C4_Witness ==
    /\ last # <<>>
    /\ last[1].url \in seeded
    /\ InScope(last[1])
    /\ calls = <<"is_duplicate:True">>
    /\ skip_count >= 1

EmptyRecord(a) == a.title = <<>> /\ a.content = <<>>

\* the files of a directory that load as a JSON object with an 'articles' list
ArticleLists(dir) ==
    {dir[n].json[1].value.articles :
        n \in {m \in DOMAIN dir : /\ dir[m].json # <<>>
                                  /\ dir[m].json[1].type = "dict"
                                  /\ "articles" \in DOMAIN dir[m].json[1].value}}

\* C5: no record with an empty title and an empty body is in the RunBuffer, in
\* a text artifact or in a dataset file; markup that yields neither gives no
\* record, and a record with one of the two is appended to the RunBuffer.
C5_EmptinessRule ==
    /\ \A i \in 1..Len(dataset) : ~EmptyRecord(dataset[i])
    /\ \A l \in ArticleLists(disk) : \A i \in 1..Len(l) :
          {"title", "content"} \subseteq DOMAIN l[i] => ~EmptyRecord(l[i])
    /\ \A n \in DOMAIN disk : disk[n].json = <<>> => disk[n].text # <<"\n", "\n">>
    /\ Called("extract_content") =>
          LET title == title_of(last[1].html)
              content == content_of(last[1].html)
          IN  /\ Called("append") <=> (title # <<>> \/ content # <<>>)
              /\ Called("append") =>
                    /\ dataset[Len(dataset)].url = last[1].url
                    /\ dataset[Len(dataset)].title = title
                    /\ dataset[Len(dataset)].content = content

C5_Witness ==
    /\ Called("extract_content")
    /\ ~Called("append")
    /\ title_of(last[1].html) = <<>>
    /\ content_of(last[1].html) = <<>>
    /\ \E i \in 1..Len(dataset) : dataset[i].title = <<>> /\ dataset[i].content # <<>>

\* C6: a failing artifact write is absorbed: the run stays in the loop, or
\* has gone on to Finalizing and Done.
C6_WriteErrorAbsorbed ==
    error = "write" => phase \in {"Streaming", "Finalizing", "Done"}

\* the articles of the file a finished run reports as written
WrittenArticles == disk[output_file[1]].json[1].value.articles

\* C7: when the stream stops, after any number of results, the run goes to
\* Finalizing with the RunBuffer as it is, and Finalizing writes every record
\* of a non-empty RunBuffer to the dataset file.
C7_StopKeepsRecords ==
    [][/\ (phase = "Streaming" /\ phase' \notin {"Streaming", "Failed"}) =>
              (phase' = "Finalizing" /\ dataset' = dataset)
       /\ (phase = "Finalizing" /\ phase' # "Finalizing") =>
              /\ phase' = "Done"
              /\ dataset' = dataset
              /\ dataset # <<>> =>
                    /\ output_file' # <<>>
                    /\ output_file'[1] \in DOMAIN disk'
                    /\ disk'[output_file'[1]].json # <<>>
                    /\ disk'[output_file'[1]].json[1].value.articles = dataset]_vars

C7_Witness ==
    /\ phase = "Done"
    /\ result_count = MaxPages
    /\ Len(dataset) = 1
    /\ output_file # <<>>
    /\ WrittenArticles = dataset

\* C8: unless the stream raises, a run passes Seeding, Streaming, Finalizing
\* and Done in that order, and at Done the summary has been reported.
C8_StateOrder ==
    [][/\ phase = "Seeding" => phase' \in {"Seeding", "Streaming"}
       /\ (phase = "Streaming" /\ error' # "upstream") =>
              phase' \in {"Streaming", "Finalizing"}
       /\ phase = "Finalizing" => phase' \in {"Finalizing", "Done"}
       /\ phase' = "Done" => reported' # <<>>]_vars

\* a .json file every article of which can be read
WellFormed(file) ==
    /\ file.json # <<>>
    /\ file.json[1].type = "dict"
    /\ "articles" \in DOMAIN file.json[1].value
    /\ \A i \in 1..Len(file.json[1].value.articles) :
          "url" \in DOMAIN file.json[1].value.articles[i]

\* C9: seeding ends in Streaming without an error, and the ledger then holds
\* the url of every article of every well-formed dataset file of the
\* directory, whatever other files os.listdir returned before or after it.
C9_BestEffortSeeding ==
    /\ phase = "Failed" => error \in {"write", "upstream"}
    /\ phase # "Seeding" =>
          \A n \in DOMAIN seed_disk :
              (EndsWith(n, DotJson) /\ WellFormed(seed_disk[n])) =>
                  \A i \in 1..Len(seed_disk[n].json[1].value.articles) :
                      seed_disk[n].json[1].value.articles[i].url \in seeded

C9_Witness ==
    /\ phase = "Streaming"
    /\ \E n \in DOMAIN seed_disk : EndsWith(n, DotJson) /\ seed_disk[n].json = <<>>
    /\ \E n \in DOMAIN seed_disk : EndsWith(n, DotJson) /\ ~WellFormed(seed_disk[n])
                                      /\ seed_disk[n].json # <<>>
    /\ \E n \in DOMAIN seed_disk : EndsWith(n, DotJson) /\ WellFormed(seed_disk[n])
    /\ NEWS1 \in seeded

\* the names of the files a first run may find
InitialNames == UNION {DOMAIN d : d \in InitialDisks}

\* C10: the dataset file a run wrote stays in the directory unchanged: no
\* later run writes its dataset to the same path.
C10_NeverOverwritten ==
    [][\A n \in (DOMAIN disk) \ InitialNames :
          EndsWith(n, DotJson) => (n \in DOMAIN disk' /\ disk'[n] = disk[n])]_vars

\* the dataset files of a directory
JsonNames(dir) == {n \in DOMAIN dir : EndsWith(n, DotJson)}

\* the dataset files are the ones seeding found, but for the file named
UntouchedBut(names) ==
    /\ JsonNames(disk) \ names = JsonNames(seed_disk) \ names
    /\ \A n \in JsonNames(disk) \ names : disk[n] = seed_disk[n]

\* C11: no dataset file is written before Finalizing ends; Finalizing with an
\* empty RunBuffer writes none and returns no path; Finalizing with a non-empty
\* RunBuffer writes exactly one, whose articles are the RunBuffer's records in
\* capture order, none added and none dropped.
C11_AggregatorOutput ==
    /\ phase \in {"Streaming", "Finalizing", "Failed"} => UntouchedBut({})
    /\ (phase = "Done" /\ dataset = <<>>) => (output_file = <<>> /\ UntouchedBut({}))
    /\ (phase = "Done" /\ dataset # <<>>) =>
          /\ output_file # <<>>
          /\ output_file[1] \in JsonNames(disk)
          /\ disk[output_file[1]].json # <<>>
          /\ disk[output_file[1]].json[1].value.articles = dataset
          /\ UntouchedBut({output_file[1]})

C11_Witness ==
    /\ phase = "Done"
    /\ Len(dataset) = 2
    /\ dataset[1].url # dataset[2].url
    /\ output_file # <<>>
    /\ WrittenArticles = dataset
    /\ JsonNames(disk) = {output_file[1]}

\* the dataset documents of a directory that carry a count and a list
CountedDocuments(dir) ==
    {dir[n].json[1].value :
        n \in {m \in DOMAIN dir : /\ dir[m].json # <<>>
                                  /\ dir[m].json[1].type = "dict"
                                  /\ {"articles", "total_articles"} \subseteq
                                         DOMAIN dir[m].json[1].value}}

\* C12: in every dataset file, total_articles is the length of articles, and
\* the content_length of each article is the number of characters of its
\* content; the same holds of the records of the RunBuffer.
C12_AggregateIntegrity ==
    /\ \A doc \in CountedDocuments(disk) :
          /\ doc.total_articles = Len(doc.articles)
          /\ \A i \in 1..Len(doc.articles) :
                {"content", "content_length"} \subseteq DOMAIN doc.articles[i] =>
                    doc.articles[i].content_length = Len(doc.articles[i].content)
    /\ \A i \in 1..Len(dataset) : dataset[i].content_length = Len(dataset[i].content)

C12_Witness ==
    /\ phase = "Done"
    /\ output_file # <<>>
    /\ disk[output_file[1]].json[1].value.total_articles = 2
    /\ \E i \in 1..2 : /\ WrittenArticles[i].content_length = 3
                        /\ WrittenArticles[i].title # WrittenArticles[i].content

\* C13: once the stream has raised, the run has failed with that error: it
\* prints no summary, never reaches Finalizing or Done, returns no output
\* path and writes no dataset file.
C13_UpstreamFailurePropagates ==
    error = "upstream" =>
        /\ phase = "Failed"
        /\ reported = <<>>
        /\ output_file = <<>>
        /\ UntouchedBut({})

C13_Witness ==
    /\ error = "upstream"
    /\ phase = "Failed"
    /\ dataset # <<>>
    /\ result_count = 1

\* C14: consuming a result the filter rejects adds one to pages-seen and
\* leaves the ledger, the RunBuffer, the success counter, the duplicate counter
\* and every file of the directory as they were; the run stays in the loop.
C14_RejectionHasNoSideEffects ==
    [][(result_count' = result_count + 1 /\ ~InScope(last'[1])) =>
          /\ visited_urls' = visited_urls
          /\ dataset' = dataset
          /\ success_count' = success_count
          /\ skip_count' = skip_count
          /\ disk' = disk
          /\ extracted' = extracted
          /\ written' = written
          /\ calls' = <<>>
          /\ error' = "none"
          /\ phase' = "Streaming"]_vars

C14_Witness ==
    /\ last = <<Result(ABOUT, TRUE, DocFull)>>
    /\ result_count = 2
    /\ calls = <<>>
    /\ Len(dataset) = 1
    /\ success_count = 1
    /\ skip_count = 0
    /\ ABOUT \notin visited_urls

\* C15: a record is handed to save_single_txt before it is appended to the
\* RunBuffer, so every record of the RunBuffer with a non-empty title has its
\* text artifact in the directory, also after a write that failed.
C15_ArtifactBeforeBuffer ==
    /\ \A i, j \in DOMAIN calls :
          (calls[i] = "save_single_txt" /\ calls[j] = "append") => i < j
    /\ \A i \in 1..Len(dataset) :
          dataset[i].title # <<>> => txt_filename(dataset[i]) \in DOMAIN disk

\* the urls of the records of the RunBuffer
Captured == {dataset[i].url : i \in 1..Len(dataset)}

\* the urls handed to extract_content in this run
Tried == {extracted[i] : i \in 1..Len(extracted)}

\* C16 as stated: every url of the ledger was seeded from a dataset file or is
\* the url of a record of the RunBuffer; a url whose extraction gave no record
\* is not in the ledger.
C16_OnlyCapturedUrls ==
    phase # "Seeding" => visited_urls \subseteq (seeded \cup Captured)

\* C16, amended: the ledger is the seeded urls and the urls handed to
\* extract_content in this run, with or without a record as the outcome; the
\* url of every record of the RunBuffer is one of the latter, and a url that
\* was marked without a record gets into no dataset file.
C16_SeededOrTried ==
    phase # "Seeding" =>
        /\ visited_urls = seeded \cup Tried
        /\ Captured \subseteq Tried
        /\ output_file # <<>> =>
              {WrittenArticles[i].url : i \in 1..Len(WrittenArticles)} = Captured

C16_Witness ==
    /\ phase = "Done"
    /\ output_file # <<>>
    /\ NEWS3 \in visited_urls
    /\ NEWS3 \notin seeded
    /\ NEWS3 \notin Captured
    /\ NEWS3 \in Tried

\* C17: within a run the ledger only grows, through seeding and through every
\* result, and the url of every record of the RunBuffer is in the ledger.
C17_LedgerMonotone ==
    /\ [](Captured \subseteq visited_urls)
    /\ [][run' = run => visited_urls \subseteq visited_urls']_vars

C17_Witness ==
    /\ phase = "Streaming"
    /\ seeded # {}
    /\ dataset # <<>>
    /\ seeded \subseteq visited_urls
    /\ Captured \subseteq (visited_urls \ seeded)
    /\ skip_count = 1

\* C18: a record with an empty title and a non-empty body is handed to
\* save_single_txt, which writes no file and raises nothing, whether or not the
\* directory can be written; the record is appended to the RunBuffer and
\* counted as a success, and is in the dataset file the run writes.
C18_EmptyTitleSkip ==
    /\ [][(/\ result_count' = result_count + 1
           /\ Len(dataset') = Len(dataset) + 1
           /\ dataset'[Len(dataset')].title = <<>>) =>
              /\ dataset'[Len(dataset')].content # <<>>
              /\ dataset' = Append(dataset, dataset'[Len(dataset')])
              /\ success_count' = success_count + 1
              /\ calls'[Len(calls')] = "save_single_txt"
              /\ disk' = disk
              /\ written' = written
              /\ error' = "none"
              /\ phase' = "Streaming"]_vars
    /\ [](phase = "Done" =>
            \A i \in 1..Len(dataset) :
                dataset[i].title = <<>> =>
                    (output_file # <<>> /\ WrittenArticles[i] = dataset[i]))

C18_Witness ==
    /\ phase = "Done"
    /\ Len(dataset) = 2
    /\ dataset[1].title = <<>>
    /\ dataset[1].content # <<>>
    /\ success_count = 2
    /\ written = <<dataset[2].url>>
    /\ WrittenArticles[1] = dataset[1]

\* C19: pages-seen is the number of results consumed, the success counter is
\* the length of the RunBuffer, the duplicate counter is the number of results
\* that passed the filter with a url the ledger already held, and successes
\* plus duplicates never exceed pages-seen; a second delivery of a url adds
\* one to the duplicate counter and leaves the RunBuffer as long as it was.
C19_CounterConsistency ==
    /\ [](/\ result_count = arrived.results
          /\ success_count = Len(dataset)
          /\ skip_count = arrived.known
          /\ success_count + skip_count <= result_count)
    /\ [][(/\ arrived'.results = arrived.results + 1
           /\ last # <<>>
           /\ InScope(last[1])
           /\ InScope(last'[1])
           /\ last'[1].url = last[1].url) =>
              /\ skip_count' = skip_count + 1
              /\ result_count' = result_count + 1
              /\ success_count' = success_count
              /\ Len(dataset') = Len(dataset)]_vars

C19_Witness ==
    /\ arrived = [results |-> 2, known |-> 1]
    /\ result_count = 2
    /\ success_count = 1
    /\ skip_count = 1
    /\ Len(dataset) = 1
    /\ last[1].url = dataset[1].url
    /\ dataset[1].url \notin seeded

====
